---- MODULE Spec2Model ----
(***************************************************************************)
(* DataDrop relay server (src/backend/index.py): the room registry, the    *)
(* websocket handler of each connection, the HTTP room endpoints and the   *)
(* deferred cleanup, as one state machine.                                 *)
(*                                                                         *)
(* The server runs on one asyncio event loop: the code between two awaits  *)
(* of a coroutine is atomic, and every await is a point where the other    *)
(* coroutines may run.  Each action below resumes one coroutine at the     *)
(* await it is suspended on and runs it up to its next await.              *)
(*                                                                         *)
(* A send to a connection raises exactly when that connection's transport  *)
(* is no longer open (the client went away, or the server closed it).      *)
(* Frames a client sent before it went away may still be read by its       *)
(* handler, so a handler whose transport is down receives either a         *)
(* buffered frame or the disconnect.                                       *)
(*                                                                         *)
(* Left out: the wall-clock fields of TransferStats (start_time,           *)
(* last_update_time, last_bytes, current_speed) and the display strings    *)
(* derived from them (speed, eta, elapsed, *_formatted, message texts).    *)
(***************************************************************************)
EXTENDS Integers, Sequences, FiniteSets, TLC

\* ------------------------------------------------------------------ bounds
MaxConns == 3        \* websocket connections alive at the same time
MaxPeers == 2        \* of them, those that exchange the frames of a transfer
MaxRooms == 2        \* TransferRoom objects alive at the same time
MaxBytes == 2        \* payload bytes one tracker counts
MaxReqs == 2         \* DELETE /rooms/{id} requests in flight at the same time
TicksPerGrace == 1   \* clock steps per cleanup delay

\* --------------------------------------------------------- program constants
GracePeriod == 60    \* asyncio.sleep(60)

None == 0
Conns == 1..MaxConns
Peers == 1..MaxPeers
RoomObjs == 1..MaxRooms
Reqs == 1..MaxReqs
RoomIds == {"ABC123"}
Roles == {"sender", "receiver"}
RequestedRoles == Roles \cup {"viewer"}
TickSeconds == GracePeriod \div TicksPerGrace

VARIABLES
    rooms,   \* the registry: room id -> TransferRoom object, None when absent
    room,    \* the TransferRoom objects
    h,       \* per connection: the locals of its websocket_transfer coroutine
    open,    \* per connection: its transport still carries frames
    d        \* per request: the locals of its delete_room coroutine

vars == <<rooms, room, h, open, d>>

\* ------------------------------------------------------------- data model
\* TransferStats(), lines 33-41
NewStats(name, size) == [filename |-> name, total_size |-> size, transferred |-> 0]

\* TransferRoom(room_id=...), lines 80-87.  emptied_ago is a history field:
\* the seconds since the last disconnect that left the room without
\* occupants (GracePeriod or more is kept as GracePeriod); announced is a
\* history field: a file_info was accepted and no complete, cancel or
\* connection loss came after it; informed is a history field: the receiver
\* connection that was sent the file_info of the tracker the room holds.
NewRoom(rid) ==
    [room_id |-> rid, sender |-> None, receiver |-> None,
     stats |-> NewStats("", 0), is_active |-> FALSE,
     emptied_ago |-> GracePeriod, announced |-> FALSE, informed |-> None]

Opposite(rl) == IF rl = "sender" THEN "receiver" ELSE "sender"

\* round(x / y, 0) on non-negative integers, ties to even, as Python's round
RoundDiv(x, y) ==
    LET q == x \div y
        r == x % y
    IN  IF 2 * r < y THEN q
        ELSE IF 2 * r > y THEN q + 1
        ELSE IF q % 2 = 0 THEN q ELSE q + 1

\* lines 56-57 and 69: the progress percentage, in hundredths of a percent
Progress(transferred, total_size) ==
    IF total_size > 0 THEN RoundDiv(transferred * 10000, total_size) ELSE 0

\* a tracker that keeps the last payload's length instead of the sum
StatsAfterUpdateOverwrite(st, bytes_received) ==
    [st EXCEPT !.transferred = bytes_received]

\* TransferStats.update, lines 43-76: the updated tracker
StatsAfterUpdate(st, bytes_received) ==
    [st EXCEPT !.transferred = st.transferred + bytes_received]

\* TransferStats.update, lines 65-76: the snapshot it returns
Snapshot(st) ==
    [filename |-> st.filename, total_size |-> st.total_size,
     transferred |-> st.transferred,
     progress |-> Progress(st.transferred, st.total_size)]

\* base64.b64decode: the characters of a well-formed text come in groups of
\* four, each group three bytes less its "=" padding
B64Valid(s) ==
    /\ Len(s) % 4 = 0
    /\ \A i \in 1..Len(s) : s[i] = "=" => i > Len(s) - 2 /\ \A j \in i..Len(s) : s[j] = "="

B64DecodedLen(s) ==
    3 * (Len(s) \div 4) - Cardinality({i \in 1..Len(s) : s[i] = "="})

\* dict.get(key, default)
Get(data, key, default) == IF key \in DOMAIN data THEN data[key] ELSE default

\* ------------------------------------------------------------ client frames
Names == {"a.txt"}
FileSizes == {0, 2}
B64Texts == {<< >>, <<"Y", "Q", "=", "=">>, <<"Y">>}
ByteStrings == {<< >>, <<97>>}
Indexes == {0, 1}

TextFrames ==
    {[type |-> "file_info", name |-> n, size |-> s] : n \in Names, s \in FileSizes \ {0}}
    \cup {[type |-> "file_info"]}
    \cup {[type |-> "chunk", data |-> b, index |-> i] : b \in B64Texts, i \in Indexes}
    \cup {[type |-> t] : t \in {"complete", "cancel", "ping", "hello"}}

\* --------------------------------------------------------- server messages
ErrorMsg(text) == [type |-> "error", message |-> text]
ConnectedMsg(rl, rid, peer) ==
    [type |-> "connected", role |-> rl, room_id |-> rid,
     flag |-> Opposite(rl), connected |-> peer]
PeerJoinedMsg(rl) == [type |-> "peer_joined", peer |-> rl]
PeerLeftMsg(rl) == [type |-> "peer_left", peer |-> rl]
FileInfoMsg(st) == [type |-> "file_info", name |-> st.filename, size |-> st.total_size]
TransferStartedMsg(st) == [type |-> "transfer_started", name |-> st.filename]
ChunkMsg(data) ==
    [type |-> "chunk", data |-> Get(data, "data", "null"), index |-> Get(data, "index", 0)]
BytesMsg(chunk) == [type |-> "bytes", bytes |-> chunk]
ProgressMsg(snap) == [type |-> "progress"] @@ snap
CompleteMsg(st) == [type |-> "complete", filename |-> st.filename, size |-> st.total_size]
CancelledMsg(rl) == [type |-> "cancelled", by |-> rl]
PongMsg == [type |-> "pong"]

\* ------------------------------------------------------- coroutine locals
NoMsg == [type |-> "none"]
NoSnap == [filename |-> "", total_size |-> 0, transferred |-> 0, progress |-> 0]

\* a connection whose handler is not running.  owed is a history field: a
\* chunk was sent to this connection and the progress of that chunk was not
\* (yet) sent to it
IdleH ==
    [pc |-> "idle", role |-> "sender", room |-> None, to |-> None, msg |-> NoMsg,
     snap |-> NoSnap, timer |-> 0, owed |-> FALSE]

IdleD == [pc |-> "idle", room |-> None, to |-> None, id |-> ""]

Init ==
    /\ rooms = [rid \in RoomIds |-> None]
    /\ room = [o \in RoomObjs |-> NewRoom("")]
    /\ h = [c \in Conns |-> IdleH]
    /\ open = [c \in Conns |-> FALSE]
    /\ d = [q \in Reqs |-> IdleD]


\* ------------------------------------------------------------ bookkeeping
Slot(r, rl) == IF rl = "sender" THEN r.sender ELSE r.receiver
WithSlot(r, rl, v) ==
    IF rl = "sender" THEN [r EXCEPT !.sender = v] ELSE [r EXCEPT !.receiver = v]

\* a TransferRoom object somebody still holds a reference to
RoomReferenced(o, rs, hN, dN) ==
    \/ \E rid \in RoomIds : rs[rid] = o
    \/ \E c \in Conns : hN[c].room = o
    \/ \E q \in Reqs : dN[q].room = o

\* objects nobody references are garbage: they are kept in their initial form
Collect(rs, rm, hN, dN) ==
    [o \in RoomObjs |-> IF RoomReferenced(o, rs, hN, dN) THEN rm[o] ELSE NewRoom("")]

FreeRooms == {o \in RoomObjs : ~RoomReferenced(o, rooms, h, d)}

\* a WebSocket object somebody still holds a reference to
ConnReferenced(c) ==
    \/ h[c].pc # "idle"
    \/ \E o \in RoomObjs : room[o].sender = c \/ room[o].receiver = c
    \/ \E x \in Conns : h[x].to = c
    \/ \E q \in Reqs : d[q].to = c

FreeConns == {c \in Conns : ~ConnReferenced(c)}

\* a connection that a frame can still be read from or sent to: its handler
\* will call receive() again, or a slot or a pending call names it
Addressable(c, rm, hN, dN) ==
    \/ hN[c].pc \notin {"idle", "left", "sleep"}
    \/ \E o \in RoomObjs : rm[o].sender = c \/ rm[o].receiver = c
    \/ \E x \in Conns : hN[x].to = c
    \/ \E q \in Reqs : dN[q].to = c

\* The next state.  Room objects nobody references are dropped, and the
\* transport state of a connection nobody can address any more is not kept.
Commit(rs, rm, hN, opN, dN) ==
    LET rmN == Collect(rs, rm, hN, dN)
    IN  /\ rooms' = rs
        /\ room' = rmN
        /\ h' = hN
        /\ open' = [c \in Conns |-> opN[c] /\ Addressable(c, rmN, hN, dN)]
        /\ d' = dN

\* the room a coroutine's local `room` names
R(c) == room[h[c].room]
SendOk(c) == open[h[c].to]

\* --------------------------------------------- what a coroutine does next
\* suspend on `await t.send_json(m)` / `await t.send_bytes(m)` at place p
Await(p, t, m) == [k |-> "await", pc |-> p, to |-> t, msg |-> m]
\* back to `await websocket.receive()`, line 363
ToLoop == [k |-> "loop", pc |-> "loop", to |-> None, msg |-> NoMsg]
\* an exception reaches the except clauses of lines 374-378
Raise == [k |-> "raise", pc |-> "loop", to |-> None, msg |-> NoMsg]
\* the coroutine ends: a return, or an exception nothing catches
Return == [k |-> "return", pc |-> "idle", to |-> None, msg |-> NoMsg]

\* `await x.send_json(m)` where x may be None: None has no send_json
SendOrRaise(p, t, m) == IF t = None THEN Raise ELSE Await(p, t, m)

\* the coroutine of c has ended: its locals are gone and the server closes
\* the connection
Finish(c, rs, rm, hs) ==
    Commit(rs, rm, [hs EXCEPT ![c] = IdleH], [open EXCEPT ![c] = FALSE], d)

\* handle_disconnect, lines 525-529: after the notification
AfterNotify(c, rm, hs) ==
    LET o  == hs[c].room
        r2 == [rm[o] EXCEPT !.is_active = FALSE]
        rmN == [rm EXCEPT ![o] = r2]
    IN  IF r2.sender = None /\ r2.receiver = None
        THEN Commit(rooms, rmN,
                    [hs EXCEPT ![c].pc = "sleep", ![c].to = None, ![c].msg = NoMsg,
                               ![c].snap = NoSnap, ![c].timer = GracePeriod],
                    open, d)
        ELSE Finish(c, rooms, rmN, hs)

\* a disconnect path that leaves the slot as it is
HandleDisconnectKeepSlot(c, rm, hs) ==
    LET peer == Slot(rm[hs[c].room], Opposite(hs[c].role))
    IN  IF peer # None
        THEN Commit(rooms, rm,
                    [hs EXCEPT ![c].pc = "left", ![c].to = peer,
                               ![c].msg = PeerLeftMsg(hs[c].role), ![c].snap = NoSnap],
                    open, d)
        ELSE AfterNotify(c, rm, hs)

\* handle_disconnect, lines 500-523: up to the notification
HandleDisconnect(c, rm, hs) ==
    LET o    == hs[c].room
        rl   == hs[c].role
        r0   == WithSlot(rm[o], rl, None)
        r1   == [r0 EXCEPT !.announced = FALSE,
                           !.informed = IF rl = "receiver" THEN None ELSE @,
                           !.emptied_ago = IF r0.sender = None /\ r0.receiver = None
                                           THEN 0 ELSE @]
        rmN  == [rm EXCEPT ![o] = r1]
        peer == Slot(r1, Opposite(rl))
    IN  IF peer # None
        THEN Commit(rooms, rmN,
                    [hs EXCEPT ![c].pc = "left", ![c].to = peer,
                               ![c].msg = PeerLeftMsg(rl), ![c].snap = NoSnap],
                    open, d)
        ELSE AfterNotify(c, rmN, hs)

\* run the coroutine of c on from an await: rm is the room table and hs the
\* coroutines' locals after the step's assignments, res what c does next
Continue(c, rm, hs, res) ==
    CASE res.k = "await" ->
            Commit(rooms, rm,
                   [hs EXCEPT ![c].pc = res.pc, ![c].to = res.to, ![c].msg = res.msg],
                   open, d)
      [] res.k = "loop" ->
            Commit(rooms, rm,
                   [hs EXCEPT ![c].pc = "loop", ![c].to = None, ![c].msg = NoMsg,
                              ![c].snap = NoSnap],
                   open, d)
      [] res.k = "raise" -> HandleDisconnect(c, rm, hs)
      [] OTHER -> Finish(c, rooms, rm, hs)

\* -------------------------------------------------- websocket_transfer
\* lines 311-314 / 336-339 and 298-301: tell the client and close
Reject(c, rl, rs, rm, text) ==
    Commit(rs, rm,
           [h EXCEPT ![c] = [IdleH EXCEPT !.pc = "err", !.role = rl, !.to = c,
                                          !.msg = ErrorMsg(text)]],
           [open EXCEPT ![c] = TRUE], d)

\* an admission that does not look at the slot first
AssignRoleUnchecked(c, rid, rl, o, rs, rm) ==
    Commit(rs, [rm EXCEPT ![o] = [WithSlot(@, rl, c) EXCEPT !.emptied_ago = GracePeriod]],
           [h EXCEPT ![c] = [IdleH EXCEPT
               !.pc = "ack", !.role = rl, !.room = o, !.to = c,
               !.msg = ConnectedMsg(rl, rid, Slot(rm[o], Opposite(rl)) # None)]],
           [open EXCEPT ![c] = TRUE], d)

\* lines 310-322 / 335-347: the occupancy check, the slot, the acknowledgment
AssignRole(c, rid, rl, o, rs, rm) ==
    IF Slot(rm[o], rl) # None
    THEN Reject(c, rl, rs, rm, "already connected")
    ELSE Commit(rs, [rm EXCEPT ![o] = [WithSlot(@, rl, c) EXCEPT !.emptied_ago = GracePeriod]],
                [h EXCEPT ![c] = [IdleH EXCEPT
                    !.pc = "ack", !.role = rl, !.room = o, !.to = c,
                    !.msg = ConnectedMsg(rl, rid, Slot(rm[o], Opposite(rl)) # None)]],
                [open EXCEPT ![c] = TRUE], d)

\* lines 295-322: a client connects to /ws/{rid}/{rl}; accept() returns and
\* the handler runs to its first send
Connect(c, rid, rl) ==
    /\ c \in FreeConns
    /\ \A x \in FreeConns : c <= x
    /\ IF rl \notin Roles
       THEN Reject(c, rl, rooms, room, "invalid role")
       ELSE IF rooms[rid] # None
       THEN AssignRole(c, rid, rl, rooms[rid], rooms, room)
       ELSE /\ FreeRooms # {}
            /\ LET o == CHOOSE x \in FreeRooms : \A y \in FreeRooms : x <= y
               IN  AssignRole(c, rid, rl, o, [rooms EXCEPT ![rid] = o],
                              [room EXCEPT ![o] = NewRoom(rid)])

\* lines 299-300 / 312-313 / 337-338: the error was sent (or the send raised,
\* and nothing catches it)
ErrSent(c) ==
    /\ h[c].pc = "err"
    /\ Continue(c, room, h,
                IF SendOk(c) THEN Await("close", c, NoMsg) ELSE Return)

\* lines 300-301 / 313-314 / 338-339: close() returned; return
CloseDone(c) ==
    /\ h[c].pc = "close"
    /\ Continue(c, room, h, Return)

\* lines 316-333 / 341-358: the acknowledgment was sent; notify the peer that
\* is in the opposite slot now.  A failed acknowledgment raises out of the
\* handler: these lines are outside the try of line 360
AckSent(c) ==
    /\ h[c].pc = "ack"
    /\ LET peer == Slot(R(c), Opposite(h[c].role))
       IN  Continue(c, room, h,
                    IF ~SendOk(c) THEN Return
                    ELSE IF peer # None
                    THEN Await("joined", peer, PeerJoinedMsg(h[c].role))
                    ELSE ToLoop)

\* lines 326-333 / 351-358: peer_joined was sent, or the failure swallowed
JoinedSent(c) ==
    /\ h[c].pc = "joined"
    /\ Continue(c, room, h, ToLoop)


\* ------------------------------------------------------- handle_message
\* What handle_message does with `data` up to its first await: the room
\* after its assignments, the stats_update it keeps, what it does next.
Ignored(r) == [r |-> r, snap |-> NoSnap, res |-> ToLoop]

\* an announcement that switches the transfer on and keeps the old tracker
OnFileInfoKeepStats(r, rl, data) ==
    IF rl # "sender" THEN Ignored(r)
    ELSE LET r1 == [r EXCEPT !.is_active = TRUE, !.announced = TRUE]
         IN  [r |-> r1, snap |-> NoSnap,
              res |-> IF r1.receiver # None
                      THEN Await("fi_r", r1.receiver, FileInfoMsg(r1.stats))
                      ELSE SendOrRaise("fi_s", r1.sender, TransferStartedMsg(r1.stats))]

\* lines 385-411
OnFileInfo(r, rl, data) ==
    IF rl # "sender" THEN Ignored(r)
    ELSE LET r1 == [r EXCEPT !.stats = NewStats(Get(data, "name", "unknown"),
                                                Get(data, "size", 0)),
                             !.is_active = TRUE,
                             !.announced = TRUE,
                             !.informed = None]
         IN  [r |-> r1, snap |-> NoSnap,
              res |-> IF r1.receiver # None
                      THEN Await("fi_r", r1.receiver, FileInfoMsg(r1.stats))
                      ELSE SendOrRaise("fi_s", r1.sender, TransferStartedMsg(r1.stats))]

\* lines 413-430
OnChunk(r, rl, data) ==
    IF rl # "sender" \/ r.receiver = None THEN Ignored(r)
    ELSE IF ~B64Valid(Get(data, "data", << >>))
    THEN [r |-> r, snap |-> NoSnap, res |-> Raise]
    ELSE LET st1 == StatsAfterUpdate(r.stats, B64DecodedLen(Get(data, "data", << >>)))
         IN  [r |-> [r EXCEPT !.stats = st1], snap |-> Snapshot(st1),
              res |-> Await("ch_r", r.receiver, ChunkMsg(data))]

\* lines 455-458 and 465-468: the same message to the sender, then the receiver
ToBoth(r, p, m) ==
    IF r.sender # None THEN Await(p \o "_s", r.sender, m)
    ELSE IF r.receiver # None THEN Await(p \o "_r", r.receiver, m)
    ELSE ToLoop

\* a completion that any role may report
OnCompleteAnyRole(r, rl) ==
    LET r1 == [r EXCEPT !.is_active = FALSE, !.announced = FALSE]
    IN  [r |-> r1, snap |-> NoSnap, res |-> ToBoth(r1, "co", CompleteMsg(r1.stats))]

\* lines 437-458
OnComplete(r, rl) ==
    IF rl # "sender" THEN Ignored(r)
    ELSE LET r1 == [r EXCEPT !.is_active = FALSE, !.announced = FALSE]
         IN  [r |-> r1, snap |-> NoSnap, res |-> ToBoth(r1, "co", CompleteMsg(r1.stats))]

\* lines 460-468
OnCancel(r, rl) ==
    LET r1 == [r EXCEPT !.is_active = FALSE, !.announced = FALSE]
    IN  [r |-> r1, snap |-> NoSnap, res |-> ToBoth(r1, "ca", CancelledMsg(rl))]

\* lines 470-472
OnPing(r, rl) ==
    [r |-> r, snap |-> NoSnap, res |-> SendOrRaise("pong", Slot(r, rl), PongMsg)]

\* lines 381-472
HandleMessage(r, rl, data) ==
    LET msg_type == Get(data, "type", "null")
    IN  CASE msg_type = "file_info" -> OnFileInfo(r, rl, data)
          [] msg_type = "chunk" -> OnChunk(r, rl, data)
          [] msg_type = "complete" -> OnComplete(r, rl)
          [] msg_type = "cancel" -> OnCancel(r, rl)
          [] msg_type = "ping" -> OnPing(r, rl)
          [] OTHER -> Ignored(r)

\* lines 475-485
HandleBinaryChunk(r, rl, chunk) ==
    IF rl # "sender" \/ r.receiver = None THEN Ignored(r)
    ELSE LET st1 == StatsAfterUpdate(r.stats, Len(chunk))
         IN  [r |-> [r EXCEPT !.stats = st1], snap |-> Snapshot(st1),
              res |-> Await("bin_r", r.receiver, BytesMsg(chunk))]

\* one frame is read and handled up to the first await; a tracker counts at
\* most MaxBytes bytes (the bound of the model)
Dispatch(c, step) ==
    /\ h[c].pc = "loop"
    /\ step.r.stats.transferred <= MaxBytes
    /\ Continue(c, [room EXCEPT ![h[c].room] = step.r],
                [h EXCEPT ![c].snap = step.snap], step.res)

\* lines 363-368: a text frame holding JSON
ReceiveText(c, data) == Dispatch(c, HandleMessage(R(c), h[c].role, data))

\* lines 363-367: a text frame that is not JSON: json.loads raises
ReceiveMalformed(c) ==
    /\ h[c].pc = "loop"
    /\ Continue(c, room, h, Raise)

\* lines 363, 371-372: a binary frame
ReceiveBytes(c, chunk) ==
    Dispatch(c, HandleBinaryChunk(R(c), h[c].role, chunk))

\* lines 363-378: the transport is down and nothing is buffered: receive()
\* returns the disconnect message, which holds neither "text" nor "bytes",
\* and the next receive() raises
ReceiveDisconnect(c) ==
    /\ h[c].pc = "loop"
    /\ ~open[c]
    /\ Continue(c, room, h, Raise)

\* history: the pending send of c, a chunk or its progress, reached its target
Relayed(c) == IF SendOk(c) THEN [h EXCEPT ![h[c].to].owed = TRUE] ELSE h
Progressed(c) == IF SendOk(c) THEN [h EXCEPT ![h[c].to].owed = FALSE] ELSE h

\* lines 399-411: file_info was sent to the receiver
FileInfoSent(c) ==
    /\ h[c].pc = "fi_r"
    /\ Continue(c, IF SendOk(c) THEN [room EXCEPT ![h[c].room].informed = h[c].to]
                   ELSE room,
                h,
                IF ~SendOk(c) THEN Raise
                ELSE SendOrRaise("fi_s", R(c).sender, TransferStartedMsg(R(c).stats)))

\* lines 408-411: transfer_started was sent to the sender
StartedSent(c) ==
    /\ h[c].pc = "fi_s"
    /\ Continue(c, room, h, IF SendOk(c) THEN ToLoop ELSE Raise)

\* lines 426-434: the chunk was sent to the receiver
ChunkSent(c) ==
    /\ h[c].pc = "ch_r"
    /\ Continue(c, room, Relayed(c),
                IF ~SendOk(c) THEN Raise
                ELSE SendOrRaise("ch_ps", R(c).sender, ProgressMsg(h[c].snap)))

\* lines 434-435: progress was sent to the sender
ChunkProgressSenderSent(c) ==
    /\ h[c].pc = "ch_ps"
    /\ Continue(c, room, h,
                IF ~SendOk(c) THEN Raise
                ELSE SendOrRaise("ch_pr", R(c).receiver, ProgressMsg(h[c].snap)))

\* line 435: progress was sent to the receiver
ChunkProgressReceiverSent(c) ==
    /\ h[c].pc = "ch_pr"
    /\ Continue(c, room, Progressed(c), IF SendOk(c) THEN ToLoop ELSE Raise)

\* lines 455-458 / 465-468: the message was sent to the sender
BothSenderSent(c) ==
    /\ h[c].pc \in {"co_s", "ca_s"}
    /\ Continue(c, room, h,
                IF ~SendOk(c) THEN Raise
                ELSE IF R(c).receiver # None
                THEN Await(IF h[c].pc = "co_s" THEN "co_r" ELSE "ca_r",
                           R(c).receiver, h[c].msg)
                ELSE ToLoop)

\* lines 457-458 / 467-468: the message was sent to the receiver
BothReceiverSent(c) ==
    /\ h[c].pc \in {"co_r", "ca_r"}
    /\ Continue(c, room, h, IF SendOk(c) THEN ToLoop ELSE Raise)

\* line 472: pong was sent
PongSent(c) ==
    /\ h[c].pc = "pong"
    /\ Continue(c, room, h, IF SendOk(c) THEN ToLoop ELSE Raise)

\* --------------------------------------------------- handle_binary_chunk
\* lines 484-494: the bytes were sent to the receiver; a failure returns
BytesSent(c) ==
    /\ h[c].pc = "bin_r"
    /\ Continue(c, room, Relayed(c),
                IF ~SendOk(c) \/ R(c).sender = None THEN ToLoop
                ELSE Await("bin_ps", R(c).sender, ProgressMsg(h[c].snap)))

\* lines 493-497: progress was sent to the sender; one try holds both sends
BytesProgressSenderSent(c) ==
    /\ h[c].pc = "bin_ps"
    /\ Continue(c, room, h,
                IF ~SendOk(c) \/ R(c).receiver = None THEN ToLoop
                ELSE Await("bin_pr", R(c).receiver, ProgressMsg(h[c].snap)))

\* lines 495-497: progress was sent to the receiver
BytesProgressReceiverSent(c) ==
    /\ h[c].pc = "bin_pr"
    /\ Continue(c, room, Progressed(c), ToLoop)

\* ------------------------------------------------------ handle_disconnect
\* lines 504-525 / 515-525: peer_left was sent, or the failure swallowed
PeerLeftSent(c) ==
    /\ h[c].pc = "left"
    /\ AfterNotify(c, room, h)

\* a cleanup that deletes without looking at the slots again
CleanupUnchecked(rs, rm, rid) ==
    IF rs[rid] # None THEN [rs EXCEPT ![rid] = None] ELSE rs

\* lines 530-533: the room registered under the id is deleted if it is empty
Cleanup(rs, rm, rid) ==
    IF rs[rid] # None /\ rm[rs[rid]].sender = None /\ rm[rs[rid]].receiver = None
    THEN [rs EXCEPT ![rid] = None]
    ELSE rs

\* lines 529-533: the sleep is over
Wake(c) ==
    /\ h[c].pc = "sleep"
    /\ h[c].timer <= 0
    /\ Finish(c, Cleanup(rooms, room, R(c).room_id), room, h)

\* time passes while a coroutine sleeps
Tick ==
    /\ \E c \in Conns : h[c].pc = "sleep" /\ h[c].timer > 0
    /\ Commit(rooms,
              [o \in RoomObjs |->
                  [room[o] EXCEPT !.emptied_ago =
                      IF @ + TickSeconds > GracePeriod THEN GracePeriod
                      ELSE @ + TickSeconds]],
              [c \in Conns |->
                  IF h[c].pc = "sleep"
                  THEN [h[c] EXCEPT !.timer = IF @ > TickSeconds THEN @ - TickSeconds ELSE 0]
                  ELSE h[c]],
              open, d)

\* the client goes away, or the network drops the connection
ClientDrop(c) ==
    /\ h[c].pc # "idle"
    /\ open[c]
    /\ Commit(rooms, room, h, [open EXCEPT ![c] = FALSE], d)

\* ------------------------------------------------------- HTTP endpoints
\* create_room, lines 233-249: an id not in the registry
CreateRoom(rid) ==
    /\ rooms[rid] = None
    /\ FreeRooms # {}
    /\ LET o == CHOOSE x \in FreeRooms : \A y \in FreeRooms : x <= y
       IN  Commit([rooms EXCEPT ![rid] = o], [room EXCEPT ![o] = NewRoom(rid)], h, open, d)

\* line 270: del rooms[room_id]; KeyError when the id is gone
Delete(q, rid, op) ==
    IF rooms[rid] # None
    THEN Commit([rooms EXCEPT ![rid] = None], room, h, op,
                [d EXCEPT ![q] = IdleD])
    ELSE Commit(rooms, room, h, op,
                [d EXCEPT ![q] = IdleD])

DeleteAwait(q, rid, o, p, t, op) ==
    Commit(rooms, room, h, op,
           [d EXCEPT ![q] = [pc |-> p, room |-> o, to |-> t, id |-> rid]])

\* delete_room, lines 252-273: up to the first close()
DeleteRoom(q, rid) ==
    /\ d[q].pc = "idle"
    /\ IF rooms[rid] = None
       THEN Commit(rooms, room, h, open,
                   [d EXCEPT ![q] = IdleD])
       ELSE LET o == rooms[rid]
            IN  IF room[o].sender # None
                THEN DeleteAwait(q, rid, o, "close_s", room[o].sender, open)
                ELSE IF room[o].receiver # None
                THEN DeleteAwait(q, rid, o, "close_r", room[o].receiver, open)
                ELSE Delete(q, rid, open)

\* lines 261-268: the sender was closed (a failure is swallowed)
DeleteSenderClosed(q) ==
    /\ d[q].pc = "close_s"
    /\ LET op == [open EXCEPT ![d[q].to] = FALSE]
           r  == room[d[q].room]
       IN  IF r.receiver # None
           THEN DeleteAwait(q, d[q].id, d[q].room, "close_r", r.receiver, op)
           ELSE Delete(q, d[q].id, op)

\* lines 266-271: the receiver was closed (a failure is swallowed)
DeleteReceiverClosed(q) ==
    /\ d[q].pc = "close_r"
    /\ Delete(q, d[q].id, [open EXCEPT ![d[q].to] = FALSE])

\* ---------------------------------------------------------- specification
\* the lifecycle of the connections C, apart from the frames of a transfer
Lifecycle(C, roles) ==
    \/ \E c \in C, rid \in RoomIds, rl \in roles : Connect(c, rid, rl)
    \/ \E c \in C : ErrSent(c)
    \/ \E c \in C : CloseDone(c)
    \/ \E c \in C : AckSent(c)
    \/ \E c \in C : JoinedSent(c)
    \/ \E c \in C : ReceiveMalformed(c)
    \/ \E c \in C : ReceiveDisconnect(c)
    \/ \E c \in C : PeerLeftSent(c)
    \/ \E c \in C : Wake(c)
    \/ \E c \in C : ClientDrop(c)
    \/ Tick

\* a file is announced
Announce(C, frames) ==
    \/ \E c \in C, data \in frames : ReceiveText(c, data)
    \/ \E c \in C : FileInfoSent(c)
    \/ \E c \in C : StartedSent(c)

\* the other frames of a transfer
Relay(C) ==
    \/ \E c \in C, chunk \in ByteStrings : ReceiveBytes(c, chunk)
    \/ \E c \in C : ChunkSent(c)
    \/ \E c \in C : ChunkProgressSenderSent(c)
    \/ \E c \in C : ChunkProgressReceiverSent(c)
    \/ \E c \in C : BothSenderSent(c)
    \/ \E c \in C : BothReceiverSent(c)
    \/ \E c \in C : PongSent(c)
    \/ \E c \in C : BytesSent(c)
    \/ \E c \in C : BytesProgressSenderSent(c)
    \/ \E c \in C : BytesProgressReceiverSent(c)

\* the HTTP endpoints, with the delete requests Q
Http(Q) ==
    \/ \E rid \in RoomIds : CreateRoom(rid)
    \/ \E q \in Q, rid \in RoomIds : DeleteRoom(q, rid)
    \/ \E q \in Q : DeleteSenderClosed(q)
    \/ \E q \in Q : DeleteReceiverClosed(q)

\* Two connections, every role a client may ask for, every frame.
Next == Lifecycle(Peers, RequestedRoles) \/ Announce(Peers, TextFrames) \/ Relay(Peers)

Spec == Init /\ [][Next]_vars

\* Every connection, the registry, the timer and the HTTP endpoints with one
\* delete request at a time; the clients send no frame that parses.
NextRooms == Lifecycle(Conns, Roles) \/ Http({1})

SpecRooms == Init /\ [][NextRooms]_vars

\* Two connections and concurrent delete requests.
NextDeletes == Lifecycle(Peers, Roles) \/ Http(Reqs)

SpecDeletes == Init /\ [][NextDeletes]_vars

\* The same steps under a fair timer: the clock of a pending asyncio.sleep
\* goes on, and the event loop resumes a coroutine whose sleep is over.  The
\* clients and the HTTP callers owe the server nothing.
SpecTimers ==
    /\ Init
    /\ [][NextDeletes]_vars
    /\ WF_vars(Tick)
    /\ \A c \in Peers : WF_vars(Wake(c))

\* ------------------------------------------------------------- properties
\* the places of a handler that is not, or no longer, in a room
Outside == {"idle", "err", "close", "left", "sleep"}

\* the connections admitted to role rl of room object o that have not left it
Holders(o, rl) ==
    {c \in Conns : h[c].pc \notin Outside /\ h[c].room = o /\ h[c].role = rl}

\* handler c is in its room: it runs, and its slot names it
InSession(c) ==
    /\ h[c].pc \notin Outside
    /\ Slot(room[h[c].room], h[c].role) = c

\* the step is one of handler c
Moves(c) == h'[c].pc # h[c].pc

OneHolderPerRole ==
    \A o \in RoomObjs, rl \in Roles :
        /\ Cardinality(Holders(o, rl)) <= 1
        /\ \A c \in Holders(o, rl) : Slot(room[o], rl) = c

\* a connection asks for a role: it is admitted to an empty slot and sent
\* `connected`, or the slot names another connection, stays as it is, and the
\* connection is sent `error`
AdmittedOrRejected(c) ==
    (h[c].pc = "idle" /\ h'[c].pc # "idle" /\ h'[c].role \in Roles) =>
        \E rid \in RoomIds :
            LET o  == rooms'[rid]
                rl == h'[c].role
            IN  /\ o # None
                /\ \/ /\ h'[c].pc = "ack"
                      /\ h'[c].msg.type = "connected"
                      /\ rooms[rid] = o => Slot(room[o], rl) = None
                      /\ Slot(room'[o], rl) = c
                   \/ /\ h'[c].pc = "err"
                      /\ h'[c].msg.type = "error"
                      /\ rooms[rid] = o
                      /\ Slot(room[o], rl) \notin {None, c}
                      /\ room'[o] = room[o]

\* a rejected connection is closed, and no slot ever names it
RejectedIsClosed(c) ==
    h[c].pc \in {"err", "close"} =>
        /\ h'[c].pc \in {"err", "close", "idle"}
        /\ \A o \in RoomObjs : room'[o].sender # c /\ room'[o].receiver # c

\* C1: role assignment is mutually exclusive.  Of the connections that ask
\* for the same role of the same room, one takes the slot and is sent
\* `connected`; every other one is sent `error`, is closed, and leaves the
\* slot naming the first.  In every state a room has at most one admitted
\* sender and at most one admitted receiver, the ones its slots name.
C1_RoleAssignmentExclusive ==
    [][/\ \A c \in Conns : AdmittedOrRejected(c) /\ RejectedIsClosed(c)
       /\ OneHolderPerRole']_vars

\* a second sender was turned away while the first holds the slot
C1_SecondSenderRejected ==
    \E c1, c2 \in Conns :
        /\ c1 # c2
        /\ h[c1].pc = "loop" /\ h[c1].role = "sender"
        /\ \E rid \in RoomIds : rooms[rid] = h[c1].room
        /\ room[h[c1].room].sender = c1
        /\ h[c2].pc = "close" /\ h[c2].role = "sender"

\* the places of a handler inside handle_message or handle_binary_chunk
Handling ==
    {"fi_r", "fi_s", "ch_r", "ch_ps", "ch_pr", "co_s", "co_r", "ca_s", "ca_r",
     "bin_r", "bin_ps", "bin_pr"}

\* C2: a failed delivery to the opposite peer is local.  A handler that is
\* relaying a file_info, chunk, complete or cancel and whose own transport is
\* up (so that whatever fails, a send to the peer or the peer's slot being
\* cleared between two sends, fails on the peer's side) stays in its room:
\* it goes on in its message loop, its slot still names it, and the
\* disconnect path is not run for it.
C2_PeerFailureIsLocal ==
    [][\A c \in Conns :
          (h[c].pc \in Handling /\ Moves(c) /\ open[c]) => InSession(c)']_vars

\* the step is the end of the sleep of handler c
Wakes(c) == h[c].pc = "sleep" /\ h'[c].pc = "idle"

\* C3: the deferred cleanup looks again before it deletes.  When the sleep of
\* a handler ends, an id leaves the registry only if both slots of the room
\* registered under it are empty at that moment; a room that is occupied
\* then stays registered.
C3_RecheckBeforeDelete ==
    [][\A c \in Conns, rid \in RoomIds :
          (Wakes(c) /\ rooms[rid] # None) =>
              IF room[rooms[rid]].sender = None /\ room[rooms[rid]].receiver = None
              THEN rooms'[rid] \in {None, rooms[rid]}
              ELSE rooms'[rid] = rooms[rid]]_vars

\* a sleep is over and the room under the id has been taken again
C3_ReoccupiedAtExpiry ==
    \E c \in Conns :
        /\ h[c].pc = "sleep" /\ h[c].timer = 0
        /\ rooms[R(c).room_id] # None
        /\ room[rooms[R(c).room_id]].sender # None

\* C4: the cleanup deletes a room no earlier than GracePeriod seconds after
\* the latest disconnect that left it without occupants.
C4_FullGracePeriod ==
    [][\A c \in Conns, rid \in RoomIds :
          (Wakes(c) /\ rooms[rid] # None /\ rooms'[rid] = None) =>
              room[rooms[rid]].emptied_ago >= GracePeriod]_vars

\* C5: when the connection of a role is lost its slot is cleared and the
\* peer that remains is sent peer_left naming the role; is_active is false
\* from then on until a file_info is accepted, and the file_info accepted
\* after the loss stands: while a file is announced, is_active is true.
C5_LossThenInactive ==
    /\ \A c \in Conns :
          h[c].pc = "left" =>
              /\ h[c].msg = PeerLeftMsg(h[c].role)
              /\ h[c].to # c
              /\ Slot(R(c), h[c].role) # c
    /\ \A o \in RoomObjs : room[o].announced => room[o].is_active

\* C6: the acknowledgment's flag is the occupancy of the opposite slot when
\* the slot is taken, and once the acknowledgment is sent a peer_joined goes
\* to the opposite peer only if the flag is true, and does go to it if the
\* flag is true and the peer is still there.
C6_PeerJoinedFollowsFlag ==
    [][\A c \in Conns :
          /\ (h[c].pc = "idle" /\ h'[c].pc = "ack") =>
                 h'[c].msg.connected =
                     (Slot(room'[h'[c].room], Opposite(h'[c].role)) # None)
          /\ (h[c].pc = "ack" /\ h'[c].pc = "joined") => h[c].msg.connected
          /\ (h[c].pc = "ack" /\ h'[c].pc = "loop") =>
                 ~(h[c].msg.connected /\ Slot(R(c), Opposite(h[c].role)) # None)]_vars

\* the handler of c has just taken a chunk off its connection
TakesChunk(c) == h[c].pc = "loop" /\ h'[c].pc \in {"ch_r", "bin_r"}

\* C7: a chunk that arrives from the sender while the receiver slot is
\* occupied is passed on to the receiver as it came (the chunk message with
\* the same data and index, or the same bytes), and after it a progress
\* message with the snapshot of that chunk is sent to the sender and then
\* to the receiver.
C7_ChunkThenProgressToBoth ==
    [][\A c \in Conns :
          /\ (h[c].pc = "loop" /\ h[c].role = "sender" /\ R(c).receiver # None) =>
                 /\ \A chunk \in ByteStrings :
                        HandleBinaryChunk(R(c), "sender", chunk).res
                            = Await("bin_r", R(c).receiver, BytesMsg(chunk))
                 /\ \A data \in {f \in TextFrames : f.type = "chunk"} :
                        B64Valid(data.data) =>
                            HandleMessage(R(c), "sender", data).res
                                = Await("ch_r", R(c).receiver,
                                        [type |-> "chunk", data |-> data.data,
                                         index |-> data.index])
          /\ (h[c].pc \in {"ch_r", "bin_r"} /\ Moves(c)) =>
                 /\ h'[c].pc = (IF h[c].pc = "ch_r" THEN "ch_ps" ELSE "bin_ps")
                 /\ h'[c].to = R(c).sender
                 /\ h'[c].msg = ProgressMsg(h[c].snap)
          /\ (h[c].pc \in {"ch_ps", "bin_ps"} /\ Moves(c)) =>
                 /\ h'[c].pc = (IF h[c].pc = "ch_ps" THEN "ch_pr" ELSE "bin_pr")
                 /\ h'[c].to = R(c).receiver
                 /\ h'[c].msg = ProgressMsg(h[c].snap)]_vars

\* C8: the chunks reach the receiver's connection in the order the sender's
\* connection emitted them (a handler takes the next frame only when it is
\* back in its loop), and the progress of a chunk is sent to that connection
\* before the next chunk is: no chunk is delivered to a connection that is
\* still owed the progress of the chunk before.
C8_ProgressBeforeNextChunk ==
    [][\A c \in Conns :
          /\ h'[c].pc \in {"ch_r", "bin_r"} /\ Moves(c) => h[c].pc = "loop"
          /\ (h[c].pc \in {"ch_r", "bin_r"} /\ Moves(c) /\ SendOk(c)) =>
                 ~h[h[c].to].owed]_vars

\* the bytes a relayed payload holds: the bytes themselves, or six bits for
\* every base64 character that is not padding
PayloadBytes(m) ==
    IF m.type = "bytes" THEN Len(m.bytes)
    ELSE (6 * Cardinality({i \in 1..Len(m.data) : m.data[i] # "="})) \div 8

SnapshotLaw(snap) ==
    /\ snap.total_size = 0 => snap.progress = 0
    /\ (snap.total_size > 0 /\ snap.transferred = snap.total_size) =>
           snap.progress = 10000

\* C9: a tracker counts what it is fed.  A new tracker starts at 0; every
\* chunk adds its length to `transferred`, which never decreases while the
\* tracker lives; the snapshot of a chunk shows the tracker after the chunk,
\* with progress 100.00 when `transferred` has reached a positive
\* `total_size` and progress 0 when `total_size` is 0.
C9_TrackerCountsBytes ==
    [][/\ \A c \in Conns :
             /\ TakesChunk(c) =>
                    LET o == h[c].room
                    IN  /\ room'[o].stats.transferred
                               = room[o].stats.transferred + PayloadBytes(h'[c].msg)
                        /\ room'[o].stats.total_size = room[o].stats.total_size
                        /\ h'[c].snap.transferred = room'[o].stats.transferred
                        /\ h'[c].snap.total_size = room'[o].stats.total_size
             /\ SnapshotLaw(h'[c].snap)
       /\ \A o \in RoomObjs :
             room'[o].stats.transferred < room[o].stats.transferred =>
                 /\ room'[o].stats.transferred = 0
                 /\ \/ ~RoomReferenced(o, rooms', h', d')
                    \/ \E c \in Conns :
                          /\ h[c].pc = "loop" /\ h[c].room = o /\ h[c].role = "sender"
                          /\ room'[o].announced]_vars

\* the second one-byte chunk of a two-byte file: the snapshot shows it whole
C9_TwoChunksMakeTheFile ==
    \E c \in Conns :
        /\ h[c].pc \in {"ch_r", "bin_r"}
        /\ PayloadBytes(h[c].msg) = 1
        /\ h[c].snap.total_size = 2 /\ h[c].snap.transferred = 2
        /\ h[c].snap.progress = 10000
        /\ R(c).stats.transferred = 2

\* what the handler of c would do with a frame: nothing
NoEffect(c, step) == step.r = R(c) /\ step.snap = NoSnap /\ step.res.k = "loop"

\* C10: ignored messages change nothing.  A file_info, chunk or complete
\* from the receiver, a chunk in either encoding from the sender while the
\* receiver slot is empty, and a message of a type the server does not know
\* leave the room as it is and take the handler straight back to its loop:
\* nothing is sent, nothing is deleted, and the connection goes on.
C10_IgnoredChangeNothing ==
    \A c \in Conns :
        h[c].pc = "loop" =>
            /\ \A data \in TextFrames :
                   (\/ h[c].role = "receiver" /\ data.type \in {"file_info", "chunk", "complete"}
                    \/ h[c].role = "sender" /\ data.type = "chunk" /\ R(c).receiver = None
                    \/ data.type \notin {"file_info", "chunk", "complete", "cancel", "ping"})
                   => NoEffect(c, HandleMessage(R(c), h[c].role, data))
            /\ \A chunk \in ByteStrings :
                   (h[c].role = "sender" /\ R(c).receiver = None)
                   => NoEffect(c, HandleBinaryChunk(R(c), h[c].role, chunk))

\* a receiver waits for frames while a transfer is on, and a sender whose
\* receiver slot is empty has announced a file
C10_FramesToIgnore ==
    /\ \E c \in Conns :
          /\ h[c].pc = "loop" /\ h[c].role = "receiver"
          /\ R(c).sender # None /\ R(c).is_active /\ R(c).stats.transferred > 0
    \/ \E c \in Conns :
          /\ h[c].pc = "loop" /\ h[c].role = "sender"
          /\ R(c).receiver = None /\ R(c).is_active

\* C11: a delete never fails.  A delete_room that found the room and closed
\* its connections ends with that room removed from the registry: the id is
\* still registered, for the room whose connections were closed, when the
\* delete gets to remove it, whatever other deletes of the id and the
\* deferred cleanup did meanwhile.  (A delete of an id that is absent changes
\* nothing: DeleteRoom leaves every variable as it is.)
C11_DeleteNeverFails ==
    [][\A q \in Reqs :
          (d[q].pc \in {"close_s", "close_r"} /\ d'[q].pc = "idle") =>
              /\ rooms[d[q].id] = d[q].room
              /\ rooms'[d[q].id] = None]_vars

\* the tracker a file_info frame f announces
AnnouncedStats(f) ==
    [filename |-> IF "name" \in DOMAIN f THEN f.name ELSE "unknown",
     total_size |-> IF "size" \in DOMAIN f THEN f.size ELSE 0,
     transferred |-> 0]

\* the handler of c, a sender in room object o, has just accepted a file_info
\* that made the tracker of o
JustAnnounced(c, o) ==
    /\ h[c].pc = "loop" /\ h[c].room = o /\ h[c].role = "sender"
    /\ h'[c].pc \in {"fi_r", "fi_s"}
    /\ \E f \in {x \in TextFrames : x.type = "file_info"} :
          room'[o].stats = AnnouncedStats(f)

\* C12: is_active means a file was announced.  A room whose is_active is true
\* holds a tracker that a file_info of its sender created (never the tracker
\* a room is born with): is_active turns true, and the filename or total_size
\* of an active room changes, only in the step in which the sender's handler
\* accepts a file_info, and the tracker is then the announced one.
C12_ActiveMeansAnnounced ==
    [][\A o \in RoomObjs :
          /\ room'[o].is_active => room'[o].stats.filename # ""
          /\ (/\ room'[o].is_active
              /\ \/ ~room[o].is_active
                 \/ room'[o].stats.filename # room[o].stats.filename
                 \/ room'[o].stats.total_size # room[o].stats.total_size)
             => \E c \in Conns : JustAnnounced(c, o)]_vars

\* a transfer is on and its tracker has counted the announced two bytes
C12_ActiveTransfer ==
    \E o \in RoomObjs :
        /\ room[o].is_active
        /\ room[o].stats.filename = "a.txt" /\ room[o].stats.total_size = 2
        /\ room[o].stats.transferred = 2

\* the handler of c has just taken a complete or a cancel off its connection
Ends(c) == h[c].pc = "loop" /\ h'[c].pc \in {"co_s", "co_r", "ca_s", "ca_r"}

\* the handler of c, a sender, has just taken a file_info off its connection
Announces(c) ==
    h[c].pc = "loop" /\ h[c].role = "sender" /\ h'[c].pc \in {"fi_r", "fi_s"}

\* after a complete or a cancel the room is idle
IdleAfterEnd == \A c \in Conns : Ends(c) => ~room'[h[c].room].is_active

\* a file_info starts a transfer with a tracker of its own
FreshTransfer ==
    \A c \in Conns :
        Announces(c) =>
            LET r1 == room'[h[c].room]
            IN  /\ r1.is_active
                /\ \E f \in {x \in TextFrames : x.type = "file_info"} :
                      r1.stats = AnnouncedStats(f)
                /\ r1.sender = R(c).sender /\ r1.receiver = R(c).receiver

\* the receiver, if there is one, is sent file_info, and the sender is sent
\* transfer_started
BothNotified ==
    \A c \in Conns :
        /\ Announces(c) =>
               LET r1 == room'[h[c].room]
               IN  IF r1.receiver # None
                   THEN /\ h'[c].pc = "fi_r" /\ h'[c].to = r1.receiver
                        /\ h'[c].msg = [type |-> "file_info", name |-> r1.stats.filename,
                                        size |-> r1.stats.total_size]
                   ELSE /\ h'[c].pc = "fi_s" /\ h'[c].to = c
                        /\ h'[c].msg = [type |-> "transfer_started",
                                        name |-> r1.stats.filename]
        /\ (h[c].pc = "fi_r" /\ Moves(c)) =>
               /\ h'[c].pc = "fi_s" /\ h'[c].to = c
               /\ h'[c].msg = [type |-> "transfer_started", name |-> R(c).stats.filename]

\* C13: after a complete or a cancel the room is idle, and a file_info of the
\* sender starts a new transfer: the tracker is a new one with the announced
\* name and size and no bytes counted, is_active is true, the receiver (if
\* there is one) is sent file_info and the sender is sent transfer_started.
C13_NewTransferAfterEnd == [][IdleAfterEnd /\ FreshTransfer /\ BothNotified]_vars

\* the handler of c has just taken a complete / a cancel off its connection
Completes(c) == h[c].pc = "loop" /\ h[c].role = "sender" /\ h'[c].pc \in {"co_s", "co_r"}
Cancels(c) == h[c].pc = "loop" /\ h'[c].pc \in {"ca_s", "ca_r"}

\* the room of c is as it was, is_active apart, which is false
OnlyInactive(c) ==
    LET r0 == R(c)
        r1 == room'[h[c].room]
    IN  /\ ~r1.is_active
        /\ r1.sender = r0.sender /\ r1.receiver = r0.receiver /\ r1.stats = r0.stats

\* the handler of c sends m to the sender and then to the receiver, to each
\* one whose slot is occupied: p is the place of the first send, q of the second
SentToBoth(c, take, p, q, m) ==
    /\ take =>
           /\ h'[c].msg = m
           /\ IF R(c).sender # None
              THEN h'[c].pc = p /\ h'[c].to = R(c).sender
              ELSE h'[c].pc = q /\ h'[c].to = R(c).receiver
    /\ (h[c].pc = p /\ Moves(c) /\ R(c).receiver # None) =>
           h'[c].pc = q /\ h'[c].to = R(c).receiver /\ h'[c].msg = h[c].msg

\* C14: a complete from the sender sets is_active to false, leaves the slots
\* and the tracker as they are, and sends one complete summary with the
\* announced filename and total_size to the sender and then to the
\* receiver, to each one whose slot is occupied.
C14_CompleteToBoth ==
    [][\A c \in Conns :
          /\ Completes(c) => OnlyInactive(c)
          /\ SentToBoth(c, Completes(c), "co_s", "co_r",
                        [type |-> "complete", filename |-> R(c).stats.filename,
                         size |-> R(c).stats.total_size])]_vars

\* C15: a cancel from either role, whatever the room is doing, sets is_active
\* to false, leaves the tracker and the slots as they are (so a second cancel
\* leaves the room as the first did), and sends one cancelled notification
\* to the sender and then to the receiver, to each one whose slot is occupied.
C15_CancelToBoth ==
    [][\A c \in Conns :
          /\ Cancels(c) => OnlyInactive(c)
          /\ SentToBoth(c, Cancels(c), "ca_s", "ca_r",
                        [type |-> "cancelled", by |-> h[c].role])]_vars

\* C16: a frame that does not parse ends the connection that sent it, and
\* only that one.  The handler leaves its loop for the disconnect path: its
\* slot is cleared; the peer, if there is one, is sent peer_left naming the
\* role, and keeps its slot and goes on as it was; is_active is false once
\* the notification is over.
C16_MalformedEndsOnlySender ==
    [][\A c \in Conns :
          /\ (h[c].pc = "loop" /\ h'[c].pc \in Outside) =>
                 LET o    == h[c].room
                     rl   == h[c].role
                     peer == Slot(room[o], Opposite(rl))
                 IN  /\ Slot(room'[o], rl) = None
                     /\ Slot(room'[o], Opposite(rl)) = peer
                     /\ \A x \in Conns \ {c} : h'[x] = h[x]
                     /\ IF peer # None
                        THEN /\ h'[c].pc = "left" /\ h'[c].to = peer
                             /\ h'[c].msg = [type |-> "peer_left", peer |-> rl]
                        ELSE h'[c].pc = "sleep" /\ ~room'[o].is_active
          /\ (h[c].pc = "left" /\ Moves(c)) =>
                 LET o == h[c].room
                 IN  /\ ~room'[o].is_active
                     /\ room'[o].sender = room[o].sender
                     /\ room'[o].receiver = room[o].receiver
                     /\ \A x \in Conns \ {c} : h'[x] = h[x]]_vars

\* a handler is on the disconnect path while a transfer is on, its peer in
\* its loop
C16_PeerGoesOn ==
    \E c \in Conns :
        /\ h[c].pc = "left" /\ h[c].msg = PeerLeftMsg(h[c].role)
        /\ h[h[c].to].pc = "loop" /\ Slot(R(c), Opposite(h[c].role)) = h[c].to
        /\ R(c).is_active

\* C17: no slot is leaked.  An occupied slot names a connection whose
\* handler is still running for that role of that room and has not yet run
\* the disconnect path, so that the slot is cleared when the connection ends.
C17_NoLeakedSlot ==
    \A o \in RoomObjs, rl \in Roles :
        Slot(room[o], rl) # None => Slot(room[o], rl) \in Holders(o, rl)

\* C18: the announcement comes before the payload.  A chunk of an announced
\* transfer is delivered only to a receiver connection that was sent the
\* file_info of that transfer before.
C18_AnnouncedBeforeChunk ==
    [][\A c \in Conns :
          (h[c].pc \in {"ch_r", "bin_r"} /\ Moves(c) /\ SendOk(c) /\ R(c).announced)
          => R(c).informed = h[c].to]_vars

\* C19: chunks are relayed and counted only while a transfer is on: a chunk
\* is added to the tracker and passed on to the receiver only in a room whose
\* is_active is true.
C19_ChunksOnlyWhenActive ==
    [][\A c \in Conns : TakesChunk(c) => R(c).is_active]_vars

\* C20: counted is forwarded.  The tracker of an announced transfer counts
\* the chunks that were sent to the receiver and no others: when the send of
\* a chunk to the receiver fails, `transferred` is without the bytes of that
\* chunk again.
C20_CountedIsForwarded ==
    [][\A c \in Conns :
          (h[c].pc \in {"ch_r", "bin_r"} /\ Moves(c) /\ ~SendOk(c) /\ R(c).is_active)
          => room'[h[c].room].stats.transferred
                 = R(c).stats.transferred - PayloadBytes(h[c].msg)]_vars

\* C21: empty rooms do not accumulate.  Under a fair timer no room stays in
\* the registry with both slots empty for ever: again and again the id is
\* without a room or the room registered under it has a peer, whether the
\* room was registered by create_room or by a first connection.
C21_EmptyRoomsRemoved ==
    \A rid \in RoomIds :
        []<>(\/ rooms[rid] = None
             \/ room[rooms[rid]].sender # None
             \/ room[rooms[rid]].receiver # None)

====
